---- MODULE Spec2Model ----
(***************************************************************************)
(* DeepMindCheck: the text-analysis API (api/views.py), the analytics      *)
(* models (analytics/models.py) and the reporting view                     *)
(* (analytics/views.py).                                                   *)
(*                                                                         *)
(* Texts are TLA+ strings.  Python floats are fixed-point integers:        *)
(* confidences and probabilities in thousandths (1.0 = 1000), percentages  *)
(* in hundredths of a percent (40.0 % = 4000).  Dates are proleptic        *)
(* Gregorian ordinals (Python's date.toordinal()).                         *)
(***************************************************************************)
EXTENDS Integers, Sequences, FiniteSets, TLC

VARIABLES
    request,       \* the request being served (or the classifier's input)
    response,      \* the response returned for it
    textAnalysis,  \* core.TextAnalysis rows, in insertion (id) order
    userFeedback,  \* core.UserFeedback rows, in insertion (id) order
    analysis,      \* analytics.Analysis rows, in insertion (id) order
    feedback,      \* analytics.Feedback rows, in insertion (id) order
    today,         \* timezone.now().date(), as an ordinal
    report         \* the context reports_view last rendered

vars == <<request, response, textAnalysis, userFeedback, analysis, feedback,
          today, report>>

None == "None"
NoRequest == [op |-> "none"]
NoResponse == [status |-> None]
NoReport == [total_analyses |-> None]

---------------------------------------------------------------------------
(* Bounds of the model.                                                    *)

\* random.uniform(-0.1, 0.1) is sampled at NoiseSteps + 1 evenly spaced points
NoiseSteps == 2
\* random.uniform(0.05, remaining - 0.05) is sampled at PartSteps + 1 points
PartSteps == 2

---------------------------------------------------------------------------
(* Strings: str.strip, str.lower, the `in` operator.                       *)

CharAt(s, i) == SubSeq(s, i, i)

RECURSIVE Repeat(_, _)
Repeat(s, n) ==
    IF n = 0 THEN ""
    ELSE IF n % 2 = 0 THEN LET h == Repeat(s, n \div 2) IN h \o h
    ELSE s \o Repeat(s, n - 1)

Whitespace == {" ", "\t", "\n", "\r"}

\* text.strip(): drop the leading and the trailing run of whitespace
Strip(s) ==
    LET n == Len(s)
        IsSpace(i) == CharAt(s, i) \in Whitespace
    IN  IF \A i \in 1..n : IsSpace(i) THEN ""
        ELSE LET lead == CHOOSE k \in 0..(n - 1) :
                             /\ ~IsSpace(k + 1)
                             /\ \A j \in 1..k : IsSpace(j)
                 trail == CHOOSE k \in 0..(n - 1) :
                             /\ ~IsSpace(n - k)
                             /\ \A j \in (n - k + 1)..n : IsSpace(j)
             IN  SubSeq(s, lead + 1, n - trail)

UpperCase == <<"A", "B", "C", "D", "E", "F", "G", "H", "I", "J", "K", "L", "M",
               "N", "O", "P", "Q", "R", "S", "T", "U", "V", "W", "X", "Y", "Z">>
LowerCase == <<"a", "b", "c", "d", "e", "f", "g", "h", "i", "j", "k", "l", "m",
               "n", "o", "p", "q", "r", "s", "t", "u", "v", "w", "x", "y", "z">>

LowerChar(c) ==
    IF \E k \in DOMAIN UpperCase : UpperCase[k] = c
    THEN LowerCase[CHOOSE k \in DOMAIN UpperCase : UpperCase[k] = c]
    ELSE c

\* text.lower(), character by character
RECURSIVE Lower(_)
Lower(s) ==
    IF Len(s) = 0 THEN ""
    ELSE IF Len(s) = 1 THEN LowerChar(s)
    ELSE LET h == Len(s) \div 2
         IN  Lower(SubSeq(s, 1, h)) \o Lower(SubSeq(s, h + 1, Len(s)))

\* word in text
Contains(word, text) ==
    \E i \in 1..(Len(text) - Len(word) + 1) :
        SubSeq(text, i, i + Len(word) - 1) = word

---------------------------------------------------------------------------
(* Request payloads (request.data): a function from the keys present to    *)
(* JSON values.                                                            *)

JStr(s) == <<"str", s>>
JInt(i) == <<"int", i>>
JNull == <<"null">>

IsStr(v) == v[1] = "str"
IsInt(v) == v[1] = "int"

\* request.data.get(key, default)
Get(data, key, default) == IF key \in DOMAIN data THEN data[key] ELSE default

---------------------------------------------------------------------------
(* The validation block of analyze_text.                                   *)

MinTextLength == 10
MaxTextLength == 2000

HTTP_200_OK == 200
HTTP_201_CREATED == 201
HTTP_400_BAD_REQUEST == 400
HTTP_500_INTERNAL_SERVER_ERROR == 500

ValidationErrorOffByOne(text) ==
    IF text = "" THEN "Text input is required"
    ELSE IF Len(text) <= MinTextLength
    THEN "Text must be at least 10 characters long"
    ELSE IF Len(text) > MaxTextLength
    THEN "Text must be less than 2000 characters"
    ELSE None

\* the validation block: the error message, or None when the text passes
ValidationError(text) ==
    IF text = "" THEN "Text input is required"
    ELSE IF Len(text) < MinTextLength
    THEN "Text must be at least 10 characters long"
    ELSE IF Len(text) > MaxTextLength
    THEN "Text must be less than 2000 characters"
    ELSE None

---------------------------------------------------------------------------
(* The inputs the model submits.                                           *)

AnalyzePayloads ==
    { [model |-> JStr("baseline")],
      [text |-> JNull],
      [text |-> JStr("  \t\n ")],
      [text |-> JStr("hi")],
      [text |-> JStr(" I am sad. ")],
      [text |-> JStr("  I feel sad\n")],
      [text |-> JStr(" " \o Repeat("x", MaxTextLength) \o "\n"),
       model |-> JStr("advanced")],
      [text |-> JStr(Repeat("x", MaxTextLength + 1))] }

SampleTexts ==
    { "I feel so anxious and overwhelmed about everything",
      "I've been feeling overwhelmed and worried about everything lately.",
      "I can't seem to find motivation to do anything and feel hopeless.",
      "I'm feeling really happy and optimistic about my future today!",
      "The weather report says rain",
      "I feel sad",
      "Sad, depressed, hopeless and worthless",
      "sad depressed hopeless worthless tired empty lonely useless",
      "worried, nervous, in a panic, under stress and scared",
      "happy good great excited positive love joy wonderful",
      "sad but happy",
      "sad and anxious",
      "SAD AND LONELY",
      "I am retired from the gloves trade",
      "sad sad sad, anxious and worried",
      "so stressed and fearful, scared, lonely",
      "sad, lonely, happy, good, great",
      "anxious, worried, happy, joyful",
      "nervous" \o Repeat(" x", 900) }

\* the texts that reach the classifier: they passed the validation block
ClassifierTexts ==
    {t \in {Strip(s) : s \in SampleTexts} : ValidationError(t) = None}

AnalyzedTexts ==
    {t \in {Strip(d.text[2]) : d \in {e \in AnalyzePayloads :
                                        IsStr(Get(e, "text", JNull))}} :
        ValidationError(t) = None}

---------------------------------------------------------------------------
(* The classifier: generate_demo_prediction and generate_probabilities.    *)

depression_keywords ==
    <<"sad", "depressed", "hopeless", "worthless", "tired", "empty", "lonely",
      "useless">>
anxiety_keywords ==
    <<"anxious", "worried", "nervous", "panic", "stress", "overwhelmed",
      "scared", "fear">>
neutral_keywords ==
    <<"happy", "good", "great", "excited", "positive", "love", "joy",
      "wonderful">>

Labels == {"neutral", "depression", "anxiety"}

\* sum(1 for word in keywords if word in text_lower)
KeywordScore(keywords, text_lower) ==
    Cardinality({k \in DOMAIN keywords : Contains(keywords[k], text_lower)})

Scores(text) ==
    LET text_lower == Lower(text)
    IN  [depression |-> KeywordScore(depression_keywords, text_lower),
         anxiety    |-> KeywordScore(anxiety_keywords, text_lower),
         neutral    |-> KeywordScore(neutral_keywords, text_lower)]

\* Scores of the texts the model submits, computed once
ScoreTable == {<<t, Scores(t)>> : t \in ClassifierTexts \cup AnalyzedTexts}

text_scores(text) ==
    IF \E e \in ScoreTable : e[1] = text
    THEN (CHOOSE e \in ScoreTable : e[1] = text)[2]
    ELSE Scores(text)

DetermineNonStrict(depression_score, anxiety_score, neutral_score) ==
    IF depression_score >= anxiety_score /\ depression_score >= neutral_score
    THEN [prediction |-> "depression",
          base_confidence |-> 700 + depression_score * 50]
    ELSE IF anxiety_score >= depression_score /\ anxiety_score >= neutral_score
    THEN [prediction |-> "anxiety",
          base_confidence |-> 700 + anxiety_score * 50]
    ELSE IF neutral_score > 0
    THEN [prediction |-> "neutral",
          base_confidence |-> 600 + neutral_score * 50]
    ELSE [prediction |-> "neutral", base_confidence |-> 500]

\* the if / elif / elif / else chain: the label and the base confidence
Determine(depression_score, anxiety_score, neutral_score) ==
    IF depression_score > anxiety_score /\ depression_score > neutral_score
    THEN [prediction |-> "depression",
          base_confidence |-> 700 + depression_score * 50]
    ELSE IF anxiety_score > depression_score /\ anxiety_score > neutral_score
    THEN [prediction |-> "anxiety",
          base_confidence |-> 700 + anxiety_score * 50]
    ELSE IF neutral_score > 0
    THEN [prediction |-> "neutral",
          base_confidence |-> 600 + neutral_score * 50]
    ELSE [prediction |-> "neutral", base_confidence |-> 500]

\* random.uniform(a, b) = a + (b - a) * random(), sampled at k / steps
Uniform(a, b, k, steps) == a + ((b - a) * k) \div steps

NoiseDraws == 0..NoiseSteps
PartDraws == 0..PartSteps

ClampNoCap(x) == IF x > 300 THEN x ELSE 300

\* min(0.95, max(0.3, ...))
Clamp(x) ==
    LET lo == IF x > 300 THEN x ELSE 300
    IN  IF lo < 950 THEN lo ELSE 950

ConfidenceWideNoise(base_confidence, n) ==
    Clamp(base_confidence + Uniform(-200, 200, n, NoiseSteps))

\* base_confidence + random.uniform(-0.1, 0.1), clamped
Confidence(base_confidence, n) ==
    Clamp(base_confidence + Uniform(-100, 100, n, NoiseSteps))

\* the dictionary's key order: neutral, depression, anxiety
ProbKeys == <<"neutral", "depression", "anxiety">>

generate_probabilities_stale(prediction, confidence, p) ==
    LET remaining == 1000 - confidence
        other_classes == SelectSeq(ProbKeys, LAMBDA k : k # prediction)
        prob == Uniform(50, remaining - 50, p, PartSteps)
    IN  [k \in Labels |->
            IF k = prediction THEN confidence
            ELSE IF k = other_classes[Len(other_classes)] THEN remaining
            ELSE prob]

\* generate_probabilities(prediction, confidence), its one random draw being p
generate_probabilities(prediction, confidence, p) ==
    LET remaining == 1000 - confidence
        other_classes == SelectSeq(ProbKeys, LAMBDA k : k # prediction)
        prob == Uniform(50, remaining - 50, p, PartSteps)
    IN  [k \in Labels |->
            IF k = prediction THEN confidence
            ELSE IF k = other_classes[Len(other_classes)] THEN remaining - prob
            ELSE prob]

\* generate_demo_prediction(text), its random draws being n and p
generate_demo_prediction(text, n, p) ==
    LET s == text_scores(text)
        d == Determine(s.depression, s.anxiety, s.neutral)
        confidence == Confidence(d.base_confidence, n)
    IN  [prediction    |-> d.prediction,
         confidence    |-> confidence,
         probabilities |-> generate_probabilities(d.prediction, confidence, p)]

---------------------------------------------------------------------------
(* POST /analyze: analyze_text.                                            *)

\* the tiers with their bounds included
LevelAtLeast(confidence) ==
    IF confidence >= 700 THEN "high"
    ELSE IF confidence >= 500 THEN "medium"
    ELSE "low"

\* level = 'high' if confidence > 0.7 else 'medium' if confidence > 0.5 else 'low'
Level(confidence) ==
    IF confidence > 700 THEN "high"
    ELSE IF confidence > 500 THEN "medium"
    ELSE "low"

messages ==
    [neutral |->
        [high   |-> "Your text suggests a balanced and positive mental state. Keep maintaining good mental health practices!",
         medium |-> "Your text appears mostly neutral. Continue focusing on your well-being.",
         low    |-> "The analysis suggests a generally stable state, though some patterns are unclear."],
     depression |->
        [high   |-> "Your text shows patterns that may indicate depressive thoughts. Please consider reaching out to a mental health professional or trusted person.",
         medium |-> "Some concerning patterns detected in your text. It might be helpful to talk to someone you trust.",
         low    |-> "Your text contains some indicators that warrant attention. Consider monitoring your mental health."],
     anxiety |->
        [high   |-> "Your text suggests elevated stress or anxiety levels. Relaxation techniques and professional support may be beneficial.",
         medium |-> "Some stress or anxiety indicators detected. Consider practicing stress management techniques.",
         low    |-> "Mild stress patterns observed. Regular self-care practices may be helpful."]]

\* messages[prediction][level]; None stands for the KeyError of a missing key
generate_message(prediction, confidence) ==
    IF prediction \in DOMAIN messages
    THEN messages[prediction][Level(confidence)]
    ELSE None

\* TextAnalysis.objects.create(...): the row inserted, its id the next one
NewTextAnalysis(rows, text, result, model_choice) ==
    [id               |-> Len(rows) + 1,
     text_input       |-> text,
     text_length      |-> Len(text),
     prediction       |-> result.prediction,
     confidence_score |-> result.confidence,
     probabilities    |-> result.probabilities,
     model_used       |-> model_choice]

AnalysisFailed ==
    [status |-> HTTP_500_INTERNAL_SERVER_ERROR,
     error |-> "Analysis failed. Please try again."]

\* the response analyze_text returns before it classifies, NoResponse if none
early_return(data) ==
    LET raw == Get(data, "text", JStr(""))
    IN  IF ~IsStr(raw)
        THEN AnalysisFailed   \* .strip() raises: the except clause answers
        ELSE LET error == ValidationError(Strip(raw[2]))
             IN  IF error # None
                 THEN [status |-> HTTP_400_BAD_REQUEST, error |-> error]
                 ELSE NoResponse

\* the record created ahead of the validation block
analyze_text_create_first(data, rows, n, p) ==
    IF early_return(data) = AnalysisFailed
    THEN [response |-> AnalysisFailed, rows |-> rows]
    ELSE
    LET text == Strip(Get(data, "text", JStr(""))[2])
        model_choice == Get(data, "model", JStr("baseline"))[2]
        result == generate_demo_prediction(text, n, p)
        row == NewTextAnalysis(rows, text, result, model_choice)
    IN  IF early_return(data) # NoResponse
        THEN [response |-> early_return(data), rows |-> Append(rows, row)]
        ELSE [response |->
                 [status        |-> HTTP_200_OK,
                  id            |-> row.id,
                  prediction    |-> result.prediction,
                  confidence    |-> result.confidence,
                  probabilities |-> result.probabilities,
                  model_used    |-> model_choice,
                  text_length   |-> Len(text),
                  message       |-> generate_message(result.prediction,
                                                     result.confidence)],
              rows |-> Append(rows, row)]

\* the outcome of analyze_text on payload data with random draws n and p:
\* the response and the rows of core.TextAnalysis afterwards
analyze_text(data, rows, n, p) ==
    IF early_return(data) # NoResponse
    THEN [response |-> early_return(data), rows |-> rows]
    ELSE
    LET text == Strip(data.text[2])
        model_choice == Get(data, "model", JStr("baseline"))[2]
        result == generate_demo_prediction(text, n, p)
        row == NewTextAnalysis(rows, text, result, model_choice)
        message == generate_message(result.prediction, result.confidence)
    IN  IF message = None
        THEN \* raised after the row was created
             [response |-> AnalysisFailed, rows |-> Append(rows, row)]
        ELSE [response |->
                 [status        |-> HTTP_200_OK,
                  id            |-> row.id,
                  prediction    |-> result.prediction,
                  confidence    |-> result.confidence,
                  probabilities |-> result.probabilities,
                  model_used    |-> model_choice,
                  text_length   |-> Len(text),
                  message       |-> message],
              rows |-> Append(rows, row)]

---------------------------------------------------------------------------
(* POST /feedback: submit_feedback.                                        *)

\* TextAnalysis.objects.get(id=analysis_id): the rows that match
Matching(rows, analysis_id) ==
    {i \in DOMAIN rows : IsInt(analysis_id) /\ rows[i].id = analysis_id[2]}

\* rating = models.IntegerField(choices=..., default=3): the column is NOT
\* NULL; create() does not run the choices validation
RatingStorable(rating) == IsInt(rating)

\* the feedback row created from the id of the request, without the get()
submit_feedback_unchecked(data, rows, fbrows) ==
    LET analysis_id == Get(data, "analysis_id", JNull)
        rating == Get(data, "rating", JNull)
    IN  IF ~IsInt(analysis_id) \/ ~RatingStorable(rating)
        THEN [response |-> [status |-> HTTP_500_INTERNAL_SERVER_ERROR,
                            error |-> "NOT NULL constraint failed"],
              rows |-> fbrows]
        ELSE [response |-> [status |-> HTTP_201_CREATED,
                            message |-> "Feedback submitted"],
              rows |-> Append(fbrows,
                              [id |-> Len(fbrows) + 1,
                               analysis |-> analysis_id[2],
                               rating |-> rating[2]])]

\* the outcome of submit_feedback: the response and the rows of
\* core.UserFeedback afterwards
submit_feedback(data, rows, fbrows) ==
    LET analysis_id == Get(data, "analysis_id", JNull)
        rating == Get(data, "rating", JNull)
    IN  IF Matching(rows, analysis_id) = {}
        THEN [response |-> [status |-> HTTP_500_INTERNAL_SERVER_ERROR,
                            error |-> "TextAnalysis matching query does not exist."],
              rows |-> fbrows]
        ELSE IF ~RatingStorable(rating)
        THEN [response |-> [status |-> HTTP_500_INTERNAL_SERVER_ERROR,
                            error |-> "NOT NULL constraint failed"],
              rows |-> fbrows]
        ELSE [response |-> [status |-> HTTP_201_CREATED,
                            message |-> "Feedback submitted"],
              rows |-> Append(fbrows,
                              [id |-> Len(fbrows) + 1,
                               analysis |-> analysis_id[2],
                               rating |-> rating[2]])]

---------------------------------------------------------------------------
(* Dates: datetime.date as its proleptic Gregorian ordinal, timedelta as   *)
(* a number of days, strftime("%Y-%m-%d").                                 *)

IsLeap(y) == y % 4 = 0 /\ (y % 100 # 0 \/ y % 400 = 0)

DaysInMonth(y, m) ==
    IF m = 2 THEN (IF IsLeap(y) THEN 29 ELSE 28)
    ELSE IF m \in {4, 6, 9, 11} THEN 30 ELSE 31

RECURSIVE DaysBeforeMonth(_, _)
DaysBeforeMonth(y, m) ==
    IF m = 1 THEN 0 ELSE DaysBeforeMonth(y, m - 1) + DaysInMonth(y, m - 1)

DaysBeforeYear(y) ==
    (y - 1) * 365 + (y - 1) \div 4 - (y - 1) \div 100 + (y - 1) \div 400

\* date(y, m, d).toordinal()
ToOrdinal(y, m, d) == DaysBeforeYear(y) + DaysBeforeMonth(y, m) + d

\* date.fromordinal(n), as [year, month, day]
FromOrdinal(n) ==
    LET n0 == n - 1
        n400 == n0 \div 146097
        r400 == n0 % 146097
        n100 == r400 \div 36524
        r100 == r400 % 36524
        n4 == r100 \div 1461
        r4 == r100 % 1461
        n1 == r4 \div 365
        r1 == r4 % 365
        y == n400 * 400 + 1 + n100 * 100 + n4 * 4 + n1
    IN  IF n1 = 4 \/ n100 = 4
        THEN [year |-> y - 1, month |-> 12, day |-> 31]
        ELSE LET m == CHOOSE k \in 1..12 :
                          /\ DaysBeforeMonth(y, k) <= r1
                          /\ r1 < DaysBeforeMonth(y, k) + DaysInMonth(y, k)
             IN  [year |-> y, month |-> m,
                  day |-> r1 - DaysBeforeMonth(y, m) + 1]

\* zero-padded decimal of width w
Padded(i, w) == Repeat("0", w - Len(ToString(i))) \o ToString(i)

\* day.strftime("%Y-%m-%d")
Format(day) ==
    LET d == FromOrdinal(day)
    IN  Padded(d.year, 4) \o "-" \o Padded(d.month, 2) \o "-"
            \o Padded(d.day, 2)

\* the dates on which the model runs the report
Today0 == ToOrdinal(2026, 11, 5)
ReportDates ==
    {ToOrdinal(2024, 3, 1), ToOrdinal(2026, 1, 10)}

\* Format over the days the model's reports cover, computed once
FormatTable ==
    {<<day, Format(day)>> :
        day \in UNION {(d - 31)..(d + 1) : d \in ReportDates \cup {Today0}}}

strftime(day) ==
    IF \E e \in FormatTable : e[1] = day
    THEN (CHOOSE e \in FormatTable : e[1] = day)[2]
    ELSE Format(day)

---------------------------------------------------------------------------
(* The queries of reports_view.  An average is an exact fraction           *)
(* [num, den] in lowest terms; SQL NULL (no rows) is the fraction with     *)
(* den = 0.                                                                *)

RECURSIVE Gcd(_, _)
Gcd(a, b) == IF b = 0 THEN a ELSE Gcd(b, a % b)

Fraction(num, den) ==
    IF num = 0 THEN [num |-> 0, den |-> 1]
    ELSE [num |-> num \div Gcd(num, den), den |-> den \div Gcd(num, den)]

Null == [num |-> 0, den |-> 0]
Zero == [num |-> 0, den |-> 1]

\* a nullable column holds <<>> (NULL) or <<v>>
RECURSIVE SumOf(_, _)
SumOf(vals, keep) ==
    IF keep = {} THEN 0
    ELSE LET i == CHOOSE k \in keep : TRUE
         IN  vals[i][1] + SumOf(vals, keep \ {i})

\* Avg(...) over a sequence of column values: NULLs are skipped
Avg(vals) ==
    LET keep == {i \in DOMAIN vals : vals[i] # <<>>}
    IN  IF keep = {} THEN Null
        ELSE Fraction(SumOf(vals, keep), Cardinality(keep))

\* the values of a column over the rows in keep, as a sequence
Column(rows, keep, field) ==
    LET q == SelectSeq(rows, LAMBDA r : r.id \in {rows[i].id : i \in keep})
    IN  [i \in DOMAIN q |-> q[i][field]]

OrZeroMissing(avg) == avg

\* avg or 0: None and 0.0 are falsy
OrZero(avg) == IF avg = Null \/ avg = Zero THEN Zero ELSE avg

\* round(x, 2) of x = a / b, in hundredths: to nearest, ties to even
RoundDiv(a, b) ==
    LET q == a \div b
        r == a % b
    IN  IF 2 * r < b THEN q
        ELSE IF 2 * r > b THEN q + 1
        ELSE IF q % 2 = 0 THEN q ELSE q + 1

\* the rate rounded to one decimal
PercentageOneDecimal(count, total) ==
    IF total # 0 THEN 10 * RoundDiv(count * 1000, total) ELSE 0

\* round((count / total) * 100, 2) if total else 0
Percentage(count, total) ==
    IF total # 0 THEN RoundDiv(count * 10000, total) ELSE 0

\* the sequences that list every element of S by descending count; the
\* order of equal counts is the database's choice
OrderByCountDesc(S) ==
    {q \in [1..Cardinality(S) -> S] :
        /\ \A i, j \in DOMAIN q : i < j => q[i].count >= q[j].count
        /\ \A i, j \in DOMAIN q : q[i] = q[j] => i = j}

\* Analysis.objects.values("prediction").annotate(count=Count("id")), with
\* the percentage the loop adds
PredictionGroups(rows) ==
    {[prediction |-> v,
      count      |-> Cardinality({i \in DOMAIN rows : rows[i].prediction = v}),
      percentage |-> Percentage(
                       Cardinality({i \in DOMAIN rows : rows[i].prediction = v}),
                       Len(rows))] :
        v \in {rows[i].prediction : i \in DOMAIN rows}}

\* Analysis.objects.values("model_used").annotate(count, avg_confidence,
\* avg_response_time), with the usage_pct the loop adds
ModelGroups(rows) ==
    {LET keep == {i \in DOMAIN rows : rows[i].model_used = v}
     IN  [model_used        |-> v,
          count             |-> Cardinality(keep),
          avg_confidence    |-> Avg(Column(rows, keep, "confidence")),
          avg_response_time |-> Avg(Column(rows, keep, "response_time")),
          usage_pct         |-> Percentage(Cardinality(keep), Len(rows))] :
        v \in {rows[i].model_used : i \in DOMAIN rows}}

\* the loop run upwards, for star in range(1, 6)
StarStatsAscending(fbrows) ==
    [k \in 1..5 |->
        LET star == k
            count == Cardinality({i \in DOMAIN fbrows : fbrows[i].rating = star})
        IN  [star |-> star, count |-> count,
             percentage |-> Percentage(count, Len(fbrows))]]

\* the star_stats loop: for star in range(5, 0, -1)
StarStats(fbrows) ==
    [k \in 1..5 |->
        LET star == 6 - k
            count == Cardinality({i \in DOMAIN fbrows : fbrows[i].rating = star})
        IN  [star |-> star, count |-> count,
             percentage |-> Percentage(count, Len(fbrows))]]

\* activity_qs: the rows created on or after last_30, counted by day
ActivityQuery(rows, last_30) ==
    {[day |-> d,
      count |-> Cardinality({i \in DOMAIN rows : rows[i].created_at = d})] :
        d \in {rows[i].created_at : i \in {k \in DOMAIN rows :
                                              rows[k].created_at >= last_30}}}

\* last_30 = today - timedelta(days=29)
Last30OffByOne(now) == now - 30
Last30(now) == now - 29

\* reports_view: the context rendered, given the two orderings the database
\* returned
reports_view(rows, fbrows, now, predictions, model_performance) ==
    LET total_analyses == Len(rows)
        total_feedback == Len(fbrows)
        avg == Avg([i \in DOMAIN fbrows |-> <<fbrows[i].rating>>])
        last_30 == Last30(now)
        activity_qs == ActivityQuery(rows, last_30)
    IN  [total_analyses |-> total_analyses,
         feedback_stats |->
            [total_feedback |-> total_feedback,
             avg_rating |-> OrZero(avg)],
         feedback_rate |-> Percentage(total_feedback, total_analyses),
         predictions |-> predictions,
         star_stats |-> StarStats(fbrows),
         model_performance |-> model_performance,
         recent_activity_labels |->
            [i \in 1..30 |-> strftime(last_30 + (i - 1))],
         recent_activity_data |->
            [i \in 1..30 |->
                LET day == last_30 + (i - 1)
                IN  IF \E a \in activity_qs : a.day = day
                    THEN (CHOOSE a \in activity_qs : a.day = day).count
                    ELSE 0]]

---------------------------------------------------------------------------
(* The API as a state machine: one action per handler.  The handlers      *)
(* write core.TextAnalysis and core.UserFeedback; nothing in them writes   *)
(* analytics.Analysis or analytics.Feedback, the tables the report reads.  *)

\* the tables of the database hold at most MaxRows rows together
MaxRows == 3

FeedbackPayloads ==
    { [analysis_id |-> JInt(i), rating |-> JInt(r)] :
          i \in 0..2, r \in {5, 6} }
    \cup { [analysis_id |-> JInt(1)], [rating |-> JInt(5)] }

Init ==
    /\ request = NoRequest
    /\ response = NoResponse
    /\ textAnalysis = <<>>
    /\ userFeedback = <<>>
    /\ analysis = <<>>
    /\ feedback = <<>>
    /\ today = Today0
    /\ report = NoReport

\* the draws a request consumes: the random source is read only past the
\* validation block; the API's runs take the two ends of each range
Draws(data, steps) ==
    IF early_return(data) # NoResponse THEN {0} ELSE {0, steps}

AnalyzeText ==
    \E data \in AnalyzePayloads :
        \E n \in Draws(data, NoiseSteps), p \in Draws(data, PartSteps) :
            LET out == analyze_text(data, textAnalysis, n, p)
            IN  /\ Len(out.rows) + Len(userFeedback)
                       + Len(analysis) + Len(feedback) <= MaxRows
                /\ request' = [op |-> "analyze", data |-> data]
                /\ response' = out.response
                /\ textAnalysis' = out.rows
                /\ UNCHANGED <<userFeedback, analysis, feedback, today, report>>

SubmitFeedback ==
    \E data \in FeedbackPayloads :
        LET out == submit_feedback(data, textAnalysis, userFeedback)
        IN  /\ Len(textAnalysis) + Len(out.rows)
                   + Len(analysis) + Len(feedback) <= MaxRows
            /\ request' = [op |-> "feedback", data |-> data]
            /\ response' = out.response
            /\ userFeedback' = out.rows
            /\ UNCHANGED <<textAnalysis, analysis, feedback, today, report>>

ReportsView ==
    \E predictions \in OrderByCountDesc(PredictionGroups(analysis)),
       model_performance \in OrderByCountDesc(ModelGroups(analysis)) :
        /\ request' = [op |-> "report"]
        /\ response' = [status |-> HTTP_200_OK]
        /\ report' = reports_view(analysis, feedback, today, predictions,
                                  model_performance)
        /\ UNCHANGED <<textAnalysis, userFeedback, analysis, feedback, today>>

Next == AnalyzeText \/ SubmitFeedback

Spec == Init /\ [][Next]_vars

\* the orders in which a query can return n rows
Orders(n) ==
    {q \in [1..n -> 1..n] : \A i, j \in 1..n : q[i] = q[j] => i = j}

\* Analysis.objects.all().order_by('-created_at'): rows of the same day
\* come in the order of their times of day, which the rows do not hold
OrderByCreatedDesc(rows) ==
    {q \in Orders(Len(rows)) :
        \A i, j \in DOMAIN q :
            i < j => rows[q[i]].created_at >= rows[q[j]].created_at}

\* export_data: the CSV file written, as its rows; of each record the columns
\* that the rows of the model hold
export_data(type, rows, fbrows, order, fborder) ==
    LET export_type == IF type = None THEN "analyses" ELSE type
        line(a) == <<ToString(a.id), strftime(a.created_at), a.prediction,
                     a.confidence, a.model_used, a.response_time,
                     \E i \in DOMAIN fbrows : fbrows[i].analysis = a.id>>
        fbline(fb) ==
            LET a == rows[CHOOSE k \in DOMAIN rows : rows[k].id = fb.analysis]
            IN  <<fb.id, fb.rating, ToString(a.id), a.prediction, a.confidence>>
    IN  IF export_type = "analyses"
        THEN [status |-> HTTP_200_OK,
              filename |-> "analyses.csv",
              rows |-> << <<"ID", "Date", "Prediction", "Confidence",
                            "Model Used", "Response Time", "Has Feedback">> >>
                       \o [i \in DOMAIN order |-> line(rows[order[i]])]]
        ELSE IF export_type = "feedback"
        THEN [status |-> HTTP_200_OK,
              filename |-> "feedback.csv",
              rows |-> << <<"ID", "Rating", "Analysis ID", "Prediction",
                            "Confidence">> >>
                       \o [i \in DOMAIN fborder |-> fbline(fbrows[fborder[i]])]]
        ELSE [status |-> HTTP_200_OK, filename |-> None, rows |-> <<>>]

ExportData ==
    \E type \in {None, "analyses", "feedback", "summary"},
       order \in OrderByCreatedDesc(analysis),
       fborder \in Orders(Len(feedback)) :
        /\ request' = [op |-> "export", type |-> type]
        /\ response' = export_data(type, analysis, feedback, order, fborder)
        /\ UNCHANGED <<textAnalysis, userFeedback, analysis, feedback, today,
                       report>>

\* the API together with the report and the export that read the database
NextSystem == AnalyzeText \/ SubmitFeedback \/ ReportsView \/ ExportData

SpecSystem == Init /\ [][NextSystem]_vars

\* the same operations over a database whose analytics.Analysis table
\* already holds a row
InitOperations ==
    /\ request = NoRequest
    /\ response = NoResponse
    /\ textAnalysis = <<>>
    /\ userFeedback = <<>>
    /\ today = Today0
    /\ analysis = << [id |-> 1, prediction |-> "positive",
                      confidence |-> <<900>>, model_used |-> "baseline",
                      response_time |-> <<500>>, created_at |-> today] >>
    /\ feedback = <<>>
    /\ report = NoReport

SpecOperations == InitOperations /\ [][NextSystem]_vars

---------------------------------------------------------------------------
(* The classifier alone, on every sample text that passes validation.      *)

InitClassifier ==
    /\ request \in {[op |-> "classify", text |-> t] : t \in ClassifierTexts}
    /\ response = NoResponse
    /\ textAnalysis = <<>>
    /\ userFeedback = <<>>
    /\ analysis = <<>>
    /\ feedback = <<>>
    /\ today = Today0
    /\ report = NoReport

Classify ==
    \E n \in NoiseDraws, p \in PartDraws :
        /\ response' = generate_demo_prediction(request.text, n, p)
        /\ UNCHANGED <<request, textAnalysis, userFeedback, analysis, feedback,
                       today, report>>

NextClassifier == Classify

SpecClassifier == InitClassifier /\ [][NextClassifier]_vars

---------------------------------------------------------------------------
(* One analyze request on a sample text, over every draw of the random     *)
(* source.                                                                 *)

AnalyzeSample ==
    \E text \in SampleTexts, n \in NoiseDraws, p \in PartDraws :
        LET data == [text |-> JStr(text)]
            out == analyze_text(data, textAnalysis, n, p)
        IN  /\ textAnalysis = <<>>
            /\ request' = [op |-> "analyze", data |-> data]
            /\ response' = out.response
            /\ textAnalysis' = out.rows
            /\ UNCHANGED <<userFeedback, analysis, feedback, today, report>>

NextSample == AnalyzeSample

SpecSample == Init /\ [][NextSample]_vars

---------------------------------------------------------------------------
(* The report alone, over the states the analytics tables can be in: up to *)
(* MaxReportRows analyses and MaxReportFeedback feedback rows, each        *)
(* feedback row referencing an analysis (the foreign key).                 *)

MaxReportRows == 3
MaxReportFeedback == 2

\* rows created today, on the first day of the window, and the day before it
AnalysisTemplates(now) ==
    { [prediction |-> "positive", confidence |-> <<900>>,
       model_used |-> "baseline", response_time |-> <<500>>,
       created_at |-> now],
      [prediction |-> "negative", confidence |-> <<>>,
       model_used |-> "advanced", response_time |-> <<>>,
       created_at |-> now - 29],
      [prediction |-> "neutral", confidence |-> <<600>>,
       model_used |-> "baseline", response_time |-> <<700>>,
       created_at |-> now - 30] }

AnalysisTables(now) ==
    UNION {{[i \in 1..n |-> [id |-> i] @@ t[i]] :
                t \in [1..n -> AnalysisTemplates(now)]} :
           n \in 0..MaxReportRows}

\* feedback row i references analysis ((i - 1) mod n) + 1
FeedbackTables(rows) ==
    UNION {{[i \in 1..n |->
                [id |-> i,
                 analysis |-> rows[((i - 1) % Len(rows)) + 1].id,
                 rating |-> t[i]]] :
                t \in [1..n -> {1, 4, 5}]} :
           n \in IF rows = <<>> THEN {0} ELSE 0..MaxReportFeedback}

\* a store of ten analyses, the first j of one kind and the rest of another
TenAnalyses(now) ==
    {[i \in 1..10 |->
         [id |-> i] @@
         (IF i <= j
          THEN [prediction |-> "positive", confidence |-> <<900>>,
                model_used |-> "baseline", response_time |-> <<500>>,
                created_at |-> now]
          ELSE [prediction |-> "negative", confidence |-> <<>>,
                model_used |-> "advanced", response_time |-> <<>>,
                created_at |-> now - 29])] : j \in 0..10}

\* four feedback rows on the first four analyses, rated 5, 5, 4 and 3 in
\* any order of insertion
FourFeedback ==
    {[i \in 1..4 |-> [id |-> i, analysis |-> i, rating |-> t[i]]] :
        t \in {r \in [1..4 -> {3, 4, 5}] :
                  /\ Cardinality({i \in 1..4 : r[i] = 5}) = 2
                  /\ Cardinality({i \in 1..4 : r[i] = 4}) = 1}}

InitReports ==
    /\ request = NoRequest
    /\ response = NoResponse
    /\ textAnalysis = <<>>
    /\ userFeedback = <<>>
    /\ today \in ReportDates
    /\ \/ /\ analysis \in AnalysisTables(today)
          /\ feedback \in FeedbackTables(analysis)
       \/ /\ analysis \in TenAnalyses(today)
          /\ feedback \in FourFeedback
    /\ report = NoReport

NextReports == ReportsView

SpecReports == InitReports /\ [][NextReports]_vars

---------------------------------------------------------------------------
(* The life of the rows: the API creates them, and an analytics.Analysis   *)
(* row is deleted through the ORM, where Feedback.analysis is declared     *)
(* on_delete=models.CASCADE.                                               *)

\* the deletion that leaves the referencing feedback rows in place
delete_analysis_no_cascade(rows, fbrows, id) ==
    [rows   |-> SelectSeq(rows, LAMBDA r : r.id # id),
     fbrows |-> fbrows]

\* Analysis.objects.get(id=id).delete(): the row goes, and with it every
\* Feedback row whose analysis it is
delete_analysis(rows, fbrows, id) ==
    [rows   |-> SelectSeq(rows, LAMBDA r : r.id # id),
     fbrows |-> SelectSeq(fbrows, LAMBDA f : f.analysis # id)]

\* two analyses, and feedback rows that reference them in turn, up to the
\* bound on the rows of the database
InitStore ==
    /\ request = NoRequest
    /\ response = NoResponse
    /\ textAnalysis = <<>>
    /\ userFeedback = <<>>
    /\ today = Today0
    /\ analysis = [i \in 1..2 |->
                      [id |-> i, prediction |-> "positive",
                       confidence |-> <<900>>, model_used |-> "baseline",
                       response_time |-> <<500>>, created_at |-> today]]
    /\ feedback = [i \in 1..(MaxRows - 2) |->
                      [id |-> i, analysis |-> ((i - 1) % 2) + 1, rating |-> 5]]
    /\ report = NoReport

DeleteAnalysis ==
    \E i \in DOMAIN analysis :
        LET out == delete_analysis(analysis, feedback, analysis[i].id)
        IN  /\ request' = [op |-> "delete", id |-> analysis[i].id]
            /\ analysis' = out.rows
            /\ feedback' = out.fbrows
            /\ UNCHANGED <<response, textAnalysis, userFeedback, today, report>>

NextStore == AnalyzeText \/ SubmitFeedback \/ DeleteAnalysis

SpecStore == InitStore /\ [][NextStore]_vars

---------------------------------------------------------------------------
(* Properties.                                                             *)

RECURSIVE SumProbabilities(_, _)
SumProbabilities(f, S) ==
    IF S = {} THEN 0
    ELSE LET k == CHOOSE x \in S : TRUE
         IN  f[k] + SumProbabilities(f, S \ {k})

Classified == response # NoResponse

\* C1: an analyze request whose text is missing or, once trimmed, empty,
\* shorter than 10 or longer than 2000 characters is answered 400 and leaves
\* the analysis rows as they were; a text of trimmed length 10..2000 is not
\* answered with the validation error.
C1_Validation ==
    [][(request'.op = "analyze"
          /\ ("text" \notin DOMAIN request'.data \/ IsStr(request'.data.text)))
        => LET len == IF "text" \in DOMAIN request'.data
                      THEN Len(Strip(request'.data.text[2]))
                      ELSE 0
           IN  IF len < 10 \/ len > 2000
               THEN /\ response'.status = 400
                    /\ textAnalysis' = textAnalysis
               ELSE response'.status # 400]_vars

\* "hi" was rejected while a record was already stored
C1_Witness ==
    /\ request = [op |-> "analyze", data |-> [text |-> JStr("hi")]]
    /\ response.status = 400
    /\ textAnalysis # <<>>

\* C2: the total the report computes equals the number of analysis records
\* the analyze operation has persisted.
C2_ReportCountsAnalyses ==
    request.op = "report" => report.total_analyses = Len(textAnalysis)

\* C3: feedback whose analysis_id resolves to no analysis record is answered
\* with a 4xx status and creates no feedback record.
C3_NotFoundIs4xx ==
    [][(request'.op = "feedback"
          /\ ("analysis_id" \notin DOMAIN request'.data
                \/ \A i \in DOMAIN textAnalysis :
                       textAnalysis[i].id # request'.data.analysis_id[2]))
        => /\ response'.status \in 400..499
           /\ userFeedback' = userFeedback]_vars

\* C4: every persisted feedback record has a rating in 1..5.
C4_RatingsInRange ==
    \A i \in DOMAIN userFeedback : userFeedback[i].rating \in 1..5

\* C5: the classifier's label is one of depression, anxiety, neutral and its
\* confidence lies in [0.3, 0.95].
C5_LabelAndConfidence ==
    Classified =>
        /\ response.prediction \in {"depression", "anxiety", "neutral"}
        /\ response.confidence >= 300
        /\ response.confidence <= 950

\* eight depression keywords: the base confidence 1.1 was cut to 0.95
C5_Witness ==
    /\ Classified
    /\ Scores(request.text).depression = 8
    /\ response.confidence = 950

\* C6: the distribution has one entry per category, no entry is negative, the
\* entries sum to 1.0 (in exact arithmetic) and the predicted label's entry
\* is the confidence.
C6_Distribution ==
    Classified =>
        /\ DOMAIN response.probabilities = {"depression", "anxiety", "neutral"}
        /\ \A k \in DOMAIN response.probabilities :
               response.probabilities[k] >= 0
        /\ SumProbabilities(response.probabilities,
                            DOMAIN response.probabilities) = 1000
        /\ response.probabilities[response.prediction] = response.confidence

\* at confidence 0.95 one of the other two categories was left with nothing
C6_Witness ==
    /\ Classified
    /\ response.confidence = 950
    /\ \E k \in DOMAIN response.probabilities : response.probabilities[k] = 0

\* C7: the label is depression (anxiety) exactly when that category's keyword
\* count is strictly above both others; otherwise it is neutral.
C7_StrictlyHighest ==
    Classified =>
        LET s == Scores(request.text)
        IN  /\ response.prediction = "depression"
                 <=> (s.depression > s.anxiety /\ s.depression > s.neutral)
            /\ response.prediction = "anxiety"
                 <=> (s.anxiety > s.depression /\ s.anxiety > s.neutral)
            /\ response.prediction \in {"depression", "anxiety", "neutral"}

\* depression and anxiety tie for the highest count: the label is neutral
C7_Witness ==
    /\ Classified
    /\ Scores(request.text).depression = Scores(request.text).anxiety
    /\ Scores(request.text).depression > Scores(request.text).neutral
    /\ response.prediction = "neutral"

ExampleText == "I feel so anxious and overwhelmed about everything"

\* C8 as stated: on the example text the label is anxiety, the confidence is
\* strictly above 0.7 and the probabilities sum to 1.0.
C8_ExampleAbove ==
    (Classified /\ request.text = ExampleText) =>
        /\ response.prediction = "anxiety"
        /\ response.confidence > 700
        /\ SumProbabilities(response.probabilities,
                            DOMAIN response.probabilities) = 1000

\* C8, amended: on the example text (two anxiety keywords, base 0.8) the
\* label is anxiety, the confidence lies in [0.7, 0.9] and the probabilities
\* sum to 1.0.
C8_ExampleAtLeast ==
    (Classified /\ request.text = ExampleText) =>
        /\ response.prediction = "anxiety"
        /\ response.confidence >= 700
        /\ response.confidence <= 900
        /\ SumProbabilities(response.probabilities,
                            DOMAIN response.probabilities) = 1000

\* the perturbation -0.1 on the example text: the confidence is 0.7
C8_Witness ==
    /\ Classified
    /\ request.text = ExampleText
    /\ response.confidence = 700

\* C9: with no analyses the feedback rate is 0, and over an empty store
\* every statistic of the report is zero or empty.
C9_EmptyStore ==
    request.op = "report" =>
        /\ report.total_analyses = 0 => report.feedback_rate = 0
        /\ (analysis = <<>> /\ feedback = <<>>) =>
              /\ report.total_analyses = 0
              /\ report.feedback_stats.total_feedback = 0
              /\ report.feedback_rate = 0
              /\ report.feedback_stats.avg_rating = Zero
              /\ \A k \in DOMAIN report.star_stats :
                     /\ report.star_stats[k].count = 0
                     /\ report.star_stats[k].percentage = 0
              /\ \A i \in DOMAIN report.recent_activity_data :
                     report.recent_activity_data[i] = 0
              /\ report.predictions = <<>>
              /\ report.model_performance = <<>>

\* the report was rendered over an empty store
C9_Witness ==
    /\ request.op = "report"
    /\ analysis = <<>>
    /\ feedback = <<>>
    /\ Len(report.star_stats) = 5

Digits == <<"0", "1", "2", "3", "4", "5", "6", "7", "8", "9">>

DigitValue(c) == (CHOOSE k \in DOMAIN Digits : Digits[k] = c) - 1

RECURSIVE ParseInt(_)
ParseInt(s) ==
    IF Len(s) = 0 THEN 0
    ELSE ParseInt(SubSeq(s, 1, Len(s) - 1)) * 10
             + DigitValue(CharAt(s, Len(s)))

\* the date a label "YYYY-MM-DD" names
ParseDate(label) ==
    [year  |-> ParseInt(SubSeq(label, 1, 4)),
     month |-> ParseInt(SubSeq(label, 6, 7)),
     day   |-> ParseInt(SubSeq(label, 9, 10))]

\* the calendar day after d
NextDay(d) ==
    IF d.day < DaysInMonth(d.year, d.month)
    THEN [d EXCEPT !.day = d.day + 1]
    ELSE IF d.month < 12
    THEN [year |-> d.year, month |-> d.month + 1, day |-> 1]
    ELSE [year |-> d.year + 1, month |-> 1, day |-> 1]

\* C10: the daily series has 30 entries, its dates are consecutive calendar
\* days ending today, and each count is the number of analyses created on
\* that date (0 when there are none).
C10_DailySeries ==
    request.op = "report" =>
        LET labels == report.recent_activity_labels
            data == report.recent_activity_data
        IN  /\ Len(labels) = 30
            /\ Len(data) = 30
            /\ ParseDate(labels[30]) = FromOrdinal(today)
            /\ \A i \in 1..29 :
                   ParseDate(labels[i + 1]) = NextDay(ParseDate(labels[i]))
            /\ \A i \in 1..30 :
                   LET d == ParseDate(labels[i])
                       ordinal == ToOrdinal(d.year, d.month, d.day)
                   IN  data[i] = Cardinality(
                           {k \in DOMAIN analysis :
                               analysis[k].created_at = ordinal})

\* a report over analyses created today, on the first day of the window and
\* on the day before it
C10_Witness ==
    /\ request.op = "report"
    /\ \E i, j, k \in DOMAIN analysis :
           /\ analysis[i].created_at = today
           /\ analysis[j].created_at = today - 29
           /\ analysis[k].created_at = today - 30
    /\ report.recent_activity_data[30] = 1
    /\ report.recent_activity_data[1] = 1
    /\ \E i \in 2..29 : report.recent_activity_data[i] = 0

\* the store of the example: 10 analyses, 4 feedback rows rated 5, 5, 4, 3
ExampleStore ==
    /\ Len(analysis) = 10
    /\ Len(feedback) = 4
    /\ Cardinality({i \in DOMAIN feedback : feedback[i].rating = 5}) = 2
    /\ Cardinality({i \in DOMAIN feedback : feedback[i].rating = 4}) = 1
    /\ Cardinality({i \in DOMAIN feedback : feedback[i].rating = 3}) = 1

\* x, in hundredths, is count / total as a percentage rounded to 2 decimals:
\* no further than 0.005 from the exact value
RoundedPercent(x, count, total) ==
    LET diff == x * total - count * 10000
    IN  /\ 2 * diff <= total
        /\ 2 * diff >= 0 - total

\* C11: over 10 analyses and 4 feedback rows rated 5, 5, 4, 3 the report
\* gives feedback_rate 40.0, avg_rating 4.25 and, for star 5, count 2 and
\* percentage 50.0; over any store with analyses feedback_rate is
\* total_feedback / total_analyses as a percentage rounded to 2 decimals.
C11_FeedbackRate ==
    request.op = "report" =>
        /\ ExampleStore =>
              /\ report.feedback_rate = 4000
              /\ report.feedback_stats.avg_rating.num * 100
                     = 425 * report.feedback_stats.avg_rating.den
              /\ report.feedback_stats.avg_rating.den > 0
              /\ \E k \in DOMAIN report.star_stats :
                     report.star_stats[k] =
                         [star |-> 5, count |-> 2, percentage |-> 5000]
        /\ analysis # <<>> =>
              RoundedPercent(report.feedback_rate, Len(feedback), Len(analysis))

\* the report was rendered over the example store
C11_Witness ==
    /\ request.op = "report"
    /\ ExampleStore
    /\ report.feedback_rate = 4000
    /\ report.feedback_stats.total_feedback = 4

RECURSIVE SumCounts(_, _)
SumCounts(stats, k) ==
    IF k = 0 THEN 0 ELSE stats[k].count + SumCounts(stats, k - 1)

\* C12: the star distribution has exactly five entries, for stars 5, 4, 3,
\* 2, 1 in that order; each count is the number of feedback rows with that
\* rating, each percentage is the count against the total feedback rounded
\* to 2 decimals (0 without feedback), and the counts sum to the total.
C12_StarDistribution ==
    request.op = "report" =>
        LET stats == report.star_stats
        IN  /\ Len(stats) = 5
            /\ \A k \in 1..5 :
                   /\ stats[k].star = 6 - k
                   /\ stats[k].count =
                         Cardinality({i \in DOMAIN feedback :
                                         feedback[i].rating = 6 - k})
                   /\ IF feedback = <<>>
                      THEN stats[k].percentage = 0
                      ELSE RoundedPercent(stats[k].percentage, stats[k].count,
                                          Len(feedback))
            /\ SumCounts(stats, 5) = Len(feedback)
            /\ SumCounts(stats, 5) = report.feedback_stats.total_feedback

\* a report over one 5-star and one 1-star feedback row: 50.0 each
C12_Witness ==
    /\ request.op = "report"
    /\ Len(feedback) = 2
    /\ report.star_stats[1] = [star |-> 5, count |-> 1, percentage |-> 5000]
    /\ report.star_stats[5] = [star |-> 1, count |-> 1, percentage |-> 5000]
    /\ report.star_stats[2].count = 0

\* the rows of an analysis table that a feedback row references
Referenced(rows, fb) == {k \in DOMAIN rows : rows[k].id = fb.analysis}

\* C13: every feedback row references exactly one existing analysis row, in
\* the tables the API writes and in the tables the report reads: feedback is
\* created only against an analysis that exists, and deleting an analysis
\* removes the feedback that references it.
C13_FeedbackHasAnalysis ==
    /\ \A i \in DOMAIN userFeedback :
           Cardinality(Referenced(textAnalysis, userFeedback[i])) = 1
    /\ \A i \in DOMAIN feedback :
           Cardinality(Referenced(analysis, feedback[i])) = 1

\* analysis 1 was deleted and its feedback row with it, and afterwards a
\* feedback row was created through the API
C13_Witness ==
    /\ \A k \in DOMAIN analysis : analysis[k].id # 1
    /\ analysis # <<>>
    /\ feedback = <<>>
    /\ userFeedback # <<>>

\* C14: an analyze request creates at most one record: a successful one
\* appends exactly one, whose text length is the length of the trimmed text
\* and whose label and confidence are those of the response; one that fails
\* validation creates none; and no operation (analyze, feedback, report,
\* export) changes a record that exists.
C14_OneRecordNeverMutated ==
    [][/\ \A i \in DOMAIN textAnalysis :
              /\ i \in DOMAIN textAnalysis'
              /\ textAnalysis'[i] = textAnalysis[i]
       /\ \A i \in DOMAIN analysis :
              /\ i \in DOMAIN analysis'
              /\ analysis'[i] = analysis[i]
       /\ Len(textAnalysis') <= Len(textAnalysis) + 1
       /\ request'.op # "analyze" => textAnalysis' = textAnalysis
       /\ (request'.op = "analyze" /\ response'.status = 400)
              => textAnalysis' = textAnalysis
       /\ (request'.op = "analyze" /\ response'.status = 200)
              => /\ Len(textAnalysis') = Len(textAnalysis) + 1
                 /\ LET row == textAnalysis'[Len(textAnalysis')]
                    IN  /\ row.text_length =
                              Len(Strip(request'.data.text[2]))
                        /\ row.text_length = response'.text_length
                        /\ row.prediction = response'.prediction
                        /\ row.confidence_score = response'.confidence]_vars

\* a second record was created from "  I feel sad\n", of trimmed length 10
C14_Witness ==
    /\ request = [op |-> "analyze", data |-> [text |-> JStr("  I feel sad\n")]]
    /\ response.status = 200
    /\ Len(textAnalysis) = 2
    /\ textAnalysis[2].text_length = 10
    /\ textAnalysis[2].confidence_score = response.confidence

\* C15: the message of an analyze response is the one for the label and the
\* tier of the confidence, high above 0.7, medium above 0.5 and up to 0.7,
\* low otherwise; once the record is stored the request is answered 200
\* with that message.
C15_MessageByTier ==
    textAnalysis # <<>> =>
        LET row == textAnalysis[Len(textAnalysis)]
            c == row.confidence_score
            tier == IF c > 700 THEN "high"
                    ELSE IF c > 500 /\ c <= 700 THEN "medium"
                    ELSE "low"
        IN  /\ request.op = "analyze" => response.status = 200
            /\ request.op = "analyze" =>
                   response.message = messages[row.prediction][tier]

\* a confidence of exactly 0.7 was answered with the medium message
C15_Witness ==
    /\ request.op = "analyze"
    /\ response.status = 200
    /\ response.confidence = 700
    /\ response.prediction = "anxiety"
    /\ response.message = messages.anxiety.medium

\* C16: the predicted label has a maximum probability of the distribution:
\* no category's probability exceeds that of the predicted label, which is
\* the confidence.
C16_PredictedIsMaximum ==
    Classified =>
        \A k \in DOMAIN response.probabilities :
            response.probabilities[k]
                <= response.probabilities[response.prediction]

====
